---- MODULE Spec2Model ----
(***************************************************************************)
(* Pseudo-terminal pairs and the devpts view of fs/pty.c.                  *)
(*                                                                         *)
(* Terminal objects live in a store of cells (the heap); a cell whose      *)
(* driver is "free" is unallocated memory.  The two driver tables          *)
(* pty_master.ttys and pty_slave.ttys map a pair number to a cell or NULL. *)
(* The handlers of pty.c are operators from a kernel state k (a record of  *)
(* the store and the two tables) to the kernel state they leave behind.    *)
(* The generic terminal layer (tty_alloc, tty_get, tty_release,            *)
(* tty_hangup, tty_input) and the callers of the devpts operations are not *)
(* part of pty.c; they are modelled from their documented contract.        *)
(*                                                                         *)
(* Four specifications share the variables and the actions:                *)
(*   Spec     the pair life cycle with two threads inside ptmx_open;       *)
(*   SpecIO   the life cycle of one thread, with writes on both sides;     *)
(*   SpecFs   the life cycle of one thread, with readdir on the root;      *)
(*   SpecStat the life cycle of one thread, with stat of devpts paths.     *)
(***************************************************************************)
EXTENDS Integers, Sequences, FiniteSets, TLC

\* Capacity of both driver tables; the source uses 1 << 12, the model a
\* small table so that "table full" is reachable.
MAX_PTYS == 2
\* Heap cells for terminal objects (a full table needs 2 * MAX_PTYS).
MaxTtys == 4
\* Largest reference count a terminal object reaches in the model.
MaxRef == 2
\* Most bytes a terminal's input queue holds in the model.
MaxQueue == 2

\* The values of the names the source takes from its headers: the null
\* pointer, the Linux error numbers negated, the limit of int, and the two
\* request numbers of the master's ioctl (as the int that cmd is).
NULL == 0
_EIO == -5
_ENOSPC == -28
_EINVAL == -22
_ENOENT == -2
INT_MAX == 2147483647
TIOCSPTLCK_ == 1074025521
TIOCGPTN_ == -2147199952

TtyIds == 1..MaxTtys
Threads == {"t1", "t2"}
PtyNums == 0..(MAX_PTYS - 1)
\* The two requests the master understands, and one it does not.
Cmds == {TIOCSPTLCK_, TIOCGPTN_, TIOCGPTN_ + 1}
Dwords == {0, 2}
Bytes == {"a", "b"}
Bufs == {<<x>> : x \in Bytes} \cup {<<x, y>> : x \in Bytes, y \in Bytes}

VARIABLES
    tty,          \* the store: cell -> struct tty
    master_ttys,  \* pty_master.ttys
    slave_ttys,   \* pty_slave.ttys
    fds,          \* cell -> number of open file descriptors on tty->fds
    pc,           \* thread -> its position inside ptmx_open
    pty_num,      \* thread -> ptmx_open's local pty_num
    ret,          \* the last completed call: its return value and, for an
                  \* ioctl, the dword_t its arg points to afterwards
    statbuf,      \* the struct statbuf the last stat filled in
    dir,          \* the devpts root handle being enumerated with readdir
    fault,        \* a NULL or wild terminal pointer was dereferenced
    assigned,     \* history: master cell -> the number ptmx_open constructed it for
    made,         \* history: master cell -> the slave its init created
    cleaned,      \* history: slaves whose master's cleanup has completed
    sent,         \* history: cell -> all bytes written through it, in order
    overlapped,   \* history: some ptmx_open scanned while another was in flight
    e2e,          \* history: how far the run has followed the end-to-end scenario
    devfd,        \* a devpts handle: whether it is open, and its pty_num
    oob,          \* the slave table was indexed outside 0..MAX_PTYS-1
    cl,           \* the thread releasing a master: its place in pty_master_cleanup
    wr,           \* the thread writing on a slave: its place in pty_write
    tlock,        \* lock -> the thread holding it
    st            \* the thread in devpts_stat: the number it has resolved

vars == <<tty, master_ttys, slave_ttys, fds, pc, pty_num, ret, statbuf, dir,
          fault, assigned, made, cleaned, sent, overlapped, e2e, devfd, oob,
          cl, wr, tlock, st>>

\* What the pair life cycle leaves alone.
aux == <<devfd, cl, wr, tlock, st>>

\* A cell of unallocated memory.
FreeTty ==
    [driver |-> "free", num |-> 0, refcount |-> 0, other |-> NULL,
     locked |-> FALSE, perms |-> 0, uid |-> 0, gid |-> 0,
     hung_up |-> FALSE, queue |-> <<>>]

\* The kernel state the handlers work on.
K == [tty |-> tty, master_ttys |-> master_ttys, slave_ttys |-> slave_ttys]

FreeIds(k) == {i \in TtyIds : k.tty[i].driver = "free"}
Live(k, driver) == {i \in TtyIds : k.tty[i].driver = driver}
NewTty(k) == CHOOSE i \in FreeIds(k) : \A j \in FreeIds(k) : i <= j

\* tty_alloc(driver, num): a zeroed terminal object in cell id.
tty_alloc(k, id, driver, num) ==
    [k EXCEPT !.tty[id] = [FreeTty EXCEPT !.driver = driver, !.num = num]]

\* pty_master_init: create, register and cross-link the slave.
pty_master_init(k, t) ==
    LET slave == NewTty(k)
        k1 == tty_alloc(k, slave, "slave", k.tty[t].num)
    IN  [k1 EXCEPT !.tty[slave].refcount = 1,
                   !.slave_ttys[k.tty[t].num] = slave,
                   !.tty[t].other = slave,
                   !.tty[slave].other = t,
                   !.tty[slave].locked = TRUE]

\* tty_hangup: mark the terminal hung up.
tty_hangup(k, t) == [k EXCEPT !.tty[t].hung_up = TRUE]

RECURSIVE tty_release(_, _)

\* pty_master_cleanup without the line that clears slave->pty.other.
pty_master_cleanup_keeps_link(k, t) ==
    LET slave == k.tty[t].other
        k2 == tty_hangup(k, slave)
    IN  tty_release(k2, slave)

\* pty_master_cleanup without the final tty_release(slave).
pty_master_cleanup_keeps_ref(k, t) ==
    LET slave == k.tty[t].other
        k1 == [k EXCEPT !.tty[slave].other = NULL]
    IN  tty_hangup(k1, slave)

\* pty_master_cleanup: detach the slave, hang it up, drop the master's
\* reference to it.
pty_master_cleanup(k, t) ==
    LET slave == k.tty[t].other
        k1 == [k EXCEPT !.tty[slave].other = NULL]
        k2 == tty_hangup(k1, slave)
    IN  tty_release(k2, slave)

\* tty_release: drop one reference; the last one runs the driver's cleanup,
\* empties the driver's table slot of the object's number and frees it.
tty_release(k, t) ==
    IF k.tty[t].refcount - 1 = 0
    THEN LET k1 == [k EXCEPT !.tty[t].refcount = 0]
             k2 == IF k.tty[t].driver = "master"
                   THEN pty_master_cleanup(k1, t)
                   ELSE k1
             k3 == IF k.tty[t].driver = "master"
                   THEN [k2 EXCEPT !.master_ttys[k.tty[t].num] = NULL]
                   ELSE [k2 EXCEPT !.slave_ttys[k.tty[t].num] = NULL]
         IN  [k3 EXCEPT !.tty[t] = FreeTty]
    ELSE [k EXCEPT !.tty[t].refcount = @ - 1]

\* pty_slave_open
pty_slave_open(k, t) ==
    IF k.tty[t].other = NULL THEN _EIO
    ELSE IF k.tty[t].locked THEN _EIO
    ELSE 0

\* pty_return_eio
pty_return_eio(k, t) == _EIO

\* pty_ioctl with the lock flag taken as arg == 1 instead of !!arg.
pty_ioctl_lock_is_one(k, t, cmd, a) ==
    LET slave == k.tty[t].other
    IN  CASE cmd = TIOCSPTLCK_ ->
               [k |-> [k EXCEPT !.tty[slave].locked = (a = 1)], ret |-> 0, arg |-> a]
          [] cmd = TIOCGPTN_ ->
               [k |-> k, ret |-> 0, arg |-> k.tty[slave].num]
          [] OTHER ->
               [k |-> k, ret |-> _EINVAL, arg |-> a]

\* pty_ioctl with the break after TIOCGPTN_ missing: it falls through to
\* the default case.
pty_ioctl_falls_through(k, t, cmd, a) ==
    LET slave == k.tty[t].other
    IN  CASE cmd = TIOCSPTLCK_ ->
               [k |-> [k EXCEPT !.tty[slave].locked = (a # 0)], ret |-> 0, arg |-> a]
          [] cmd = TIOCGPTN_ ->
               [k |-> k, ret |-> _EINVAL, arg |-> k.tty[slave].num]
          [] OTHER ->
               [k |-> k, ret |-> _EINVAL, arg |-> a]

\* pty_ioctl with return 0 in the default case.
pty_ioctl_default_zero(k, t, cmd, a) ==
    LET slave == k.tty[t].other
    IN  CASE cmd = TIOCSPTLCK_ ->
               [k |-> [k EXCEPT !.tty[slave].locked = (a # 0)], ret |-> 0, arg |-> a]
          [] cmd = TIOCGPTN_ ->
               [k |-> k, ret |-> 0, arg |-> k.tty[slave].num]
          [] OTHER ->
               [k |-> k, ret |-> 0, arg |-> a]

\* pty_ioctl: the kernel state, the return value and *arg afterwards.
pty_ioctl(k, t, cmd, a) ==
    LET slave == k.tty[t].other
    IN  CASE cmd = TIOCSPTLCK_ ->
               [k |-> [k EXCEPT !.tty[slave].locked = (a # 0)], ret |-> 0, arg |-> a]
          [] cmd = TIOCGPTN_ ->
               [k |-> k, ret |-> 0, arg |-> k.tty[slave].num]
          [] OTHER ->
               [k |-> k, ret |-> _EINVAL, arg |-> a]

\* tty_input: append the bytes to the terminal's input queue.
tty_input(k, t, buf) ==
    [k EXCEPT !.tty[t].queue = @ \o buf]

\* pty_write handing the terminal itself to tty_input.
pty_write_to_self(k, t, buf) == tty_input(k, t, buf)

\* pty_write: forward the bytes as input to the other side.
pty_write(k, t, buf) == tty_input(k, k.tty[t].other, buf)

\* The scan loop with the slot test left out: it stops at once.
ptmx_scan_no_test(k, n) == n

\* The scan loop stopping one slot early.
RECURSIVE ptmx_scan_short(_, _)
ptmx_scan_short(k, n) ==
    IF n < MAX_PTYS - 1 /\ k.slave_ttys[n] # NULL
    THEN ptmx_scan_short(k, n + 1)
    ELSE n

\* The scan loop of ptmx_open, entered with pty_num = n.
RECURSIVE ptmx_scan(_, _)
ptmx_scan(k, n) ==
    IF n < MAX_PTYS /\ k.slave_ttys[n] # NULL
    THEN ptmx_scan(k, n + 1)
    ELSE n

\* The indices at which the scan loop, entered with pty_num = n, reads
\* pty_slave.ttys.
RECURSIVE ptmx_scan_reads(_, _)
ptmx_scan_reads(k, n) ==
    IF n < MAX_PTYS
    THEN {n} \cup (IF k.slave_ttys[n] # NULL THEN ptmx_scan_reads(k, n + 1) ELSE {})
    ELSE {}

\* tty_get(&pty_master, num): the master registered for num, constructed
\* (with the driver's init) and registered when there is none; one more
\* reference either way.
tty_get_master(k, num) ==
    IF k.master_ttys[num] # NULL
    THEN [k |-> [k EXCEPT !.tty[k.master_ttys[num]].refcount = @ + 1],
          tty |-> k.master_ttys[num]]
    ELSE LET t == NewTty(k)
             k1 == tty_alloc(k, t, "master", num)
             k2 == pty_master_init(k1, t)
         IN  [k |-> [k2 EXCEPT !.master_ttys[num] = t,
                               !.tty[t].refcount = @ + 1],
              tty |-> t]

----------------------------------------------------------------------------
\* Locks

\* The lock of the driver tables; the lock of a terminal object is named by
\* the object's cell.
ttys_lock == 0
Locks == {ttys_lock} \cup TtyIds

\* What a handler does to shared memory, in program order: the stores to
\* fields of terminal objects and to the slave table (obj is the object, or
\* ttys_lock for the table), the locks taken and given back, and the calls
\* into the generic layer.
Ev(op, obj, field) == [op |-> op, obj |-> obj, field |-> field]

\* pty_master_cleanup with the hang-up before the store to slave->pty.other.
pty_master_cleanup_events_hangs_first(k, t) ==
    LET slave == k.tty[t].other
    IN  <<Ev("lock", slave, ""),
          Ev("tty_hangup", slave, ""),
          Ev("unlock", slave, ""),
          Ev("store", slave, "other"),
          Ev("tty_release", slave, "")>>

\* pty_master_cleanup, lines 25 to 29.
pty_master_cleanup_events(k, t) ==
    LET slave == k.tty[t].other
    IN  <<Ev("store", slave, "other"),
          Ev("lock", slave, ""),
          Ev("tty_hangup", slave, ""),
          Ev("unlock", slave, ""),
          Ev("tty_release", slave, "")>>

\* pty_master_init, lines 15 to 19, on the slave that line 14 allocates.
pty_master_init_events(k, t) ==
    LET slave == NewTty(k)
    IN  <<Ev("store", slave, "refcount"),
          Ev("store", ttys_lock, "ttys"),
          Ev("store", t, "other"),
          Ev("store", slave, "other"),
          Ev("store", slave, "locked")>>

\* pty_ioctl: the store of line 44.
pty_ioctl_events(k, t, cmd) ==
    IF cmd = TIOCSPTLCK_
    THEN <<Ev("store", k.tty[t].other, "locked")>>
    ELSE <<>>

\* The effect of one step of pty_master_cleanup on the kernel state.
cleanup_step(k, ev) ==
    CASE ev.op = "store" -> [k EXCEPT !.tty[ev.obj].other = NULL]
      [] ev.op = "tty_hangup" -> tty_hangup(k, ev.obj)
      [] ev.op = "tty_release" -> tty_release(k, ev.obj)
      [] OTHER -> k

\* The locks a thread holds after the first n steps of a handler it entered
\* holding `entry'.
RECURSIVE HeldAfter(_, _, _)
HeldAfter(events, n, entry) ==
    IF n = 0 THEN entry
    ELSE LET h == HeldAfter(events, n - 1, entry)
             e == events[n]
         IN  IF e.op = "lock" THEN h \cup {e.obj}
             ELSE IF e.op = "unlock" THEN h \ {e.obj}
             ELSE h

\* The locks the generic layer holds when it calls a handler on terminal t:
\* the terminal's own, and for init and cleanup (called from tty_get and
\* tty_release) the lock of the tables.
CallerLocks(handler, t) ==
    IF handler = "ioctl" THEN {t} ELSE {ttys_lock, t}

----------------------------------------------------------------------------
\* devpts

DigitChars == <<"0", "1", "2", "3", "4", "5", "6", "7", "8", "9">>

isdigit(c) == \E i \in 1..10 : DigitChars[i] = c

RECURSIVE isdigits(_)
isdigits(str) ==
    IF str = <<>> THEN TRUE
    ELSE IF ~isdigit(Head(str)) THEN FALSE
    ELSE isdigits(Tail(str))

DigitVal(c) == (CHOOSE i \in 1..10 : DigitChars[i] = c) - 1

\* atol on a string of digits, most significant first.
RECURSIVE atol_from(_, _)
atol_from(acc, str) ==
    IF str = <<>> THEN acc
    ELSE atol_from(acc * 10 + DigitVal(Head(str)), Tail(str))

atol(str) == atol_from(0, str)

\* sprintf "%d" of a number that is not negative.
RECURSIVE itoa(_)
itoa(n) ==
    IF n < 10 THEN <<DigitChars[n + 1]>>
    ELSE itoa(n \div 10) \o <<DigitChars[(n % 10) + 1]>>

\* devpts_pty_exists.  The bounds test lets pty_num = MAX_PTYS through, and
\* the read of ttys[MAX_PTYS] is a read past the table's end: `beyond' says
\* whether the word found there is non-NULL.
devpts_pty_exists(k, n, beyond) ==
    IF n < 0 \/ n > MAX_PTYS THEN FALSE
    ELSE IF n = MAX_PTYS THEN beyond
    ELSE k.slave_ttys[n] # NULL

\* The index at which devpts_pty_exists reads pty_slave.ttys, if it does.
devpts_pty_exists_reads(n) ==
    IF n < 0 \/ n > MAX_PTYS THEN {} ELSE {n}

\* devpts_get_pty_num: -1 for the root, _ENOENT, or the pair number.
devpts_get_pty_num(k, path, beyond) ==
    IF path = <<>> THEN -1
    ELSE IF \/ path[1] # "/"
            \/ Len(path) = 1
            \/ \E i \in 2..Len(path) : path[i] = "/"
    THEN _ENOENT
    ELSE LET name == Tail(path)
         IN  IF ~isdigits(name) THEN _ENOENT
             ELSE LET pty_long == atol(name)
                  IN  IF pty_long > INT_MAX THEN _ENOENT
                      ELSE IF ~devpts_pty_exists(k, pty_long, beyond) THEN _ENOENT
                      ELSE pty_long

\* The indices at which devpts_get_pty_num reads pty_slave.ttys.
devpts_get_pty_num_reads(path) ==
    IF path = <<>> THEN {}
    ELSE IF \/ path[1] # "/"
            \/ Len(path) = 1
            \/ \E i \in 2..Len(path) : path[i] = "/"
    THEN {}
    ELSE LET name == Tail(path)
         IN  IF ~isdigits(name) THEN {}
             ELSE IF atol(name) > INT_MAX THEN {}
             ELSE devpts_pty_exists_reads(atol(name))

TTY_PSEUDO_SLAVE_MAJOR == 136

dev_make(major, minor) == [major |-> major, minor |-> minor]

\* devpts_stat_num with the owner and the group exchanged.
devpts_stat_num_swaps_ids(k, n, buf) ==
    IF n = -1
    THEN [stat |-> [buf EXCEPT !.fmt = "S_IFDIR", !.perms = 493, !.inode = 1],
          fault |-> FALSE]
    ELSE IF n \notin PtyNums \/ k.slave_ttys[n] = NULL
    THEN [stat |-> buf, fault |-> TRUE]
    ELSE LET t == k.slave_ttys[n]
         IN  [stat |-> [fmt |-> "S_IFCHR", perms |-> k.tty[t].perms,
                        uid |-> k.tty[t].gid, gid |-> k.tty[t].uid,
                        inode |-> n + 3,
                        rdev |-> dev_make(TTY_PSEUDO_SLAVE_MAJOR, n)],
              fault |-> FALSE]

\* devpts_stat_num on the statbuf `buf': the statbuf afterwards, and whether
\* the call dereferenced a NULL or wild pointer (the assert, or a slot past
\* the table's end).
devpts_stat_num(k, n, buf) ==
    IF n = -1
    THEN [stat |-> [buf EXCEPT !.fmt = "S_IFDIR", !.perms = 493, !.inode = 1],
          fault |-> FALSE]
    ELSE IF n \notin PtyNums \/ k.slave_ttys[n] = NULL
    THEN [stat |-> buf, fault |-> TRUE]
    ELSE LET t == k.slave_ttys[n]
         IN  [stat |-> [fmt |-> "S_IFCHR", perms |-> k.tty[t].perms,
                        uid |-> k.tty[t].uid, gid |-> k.tty[t].gid,
                        inode |-> n + 3,
                        rdev |-> dev_make(TTY_PSEUDO_SLAVE_MAJOR, n)],
              fault |-> FALSE]

\* devpts_getpath: what it writes to buf for a handle carrying pty_num n.
devpts_getpath(n) ==
    IF n = -1 THEN <<>> ELSE <<"/">> \o itoa(n)

\* The index at which devpts_stat_num reads pty_slave.ttys, if it does.
devpts_stat_num_reads(n) == IF n = -1 THEN {} ELSE {n}

\* The indices at which devpts_stat reads pty_slave.ttys.
devpts_stat_reads(k, path, beyond) ==
    LET n == devpts_get_pty_num(k, path, beyond)
    IN  devpts_get_pty_num_reads(path)
            \cup (IF n = _ENOENT THEN {} ELSE devpts_stat_num_reads(n))

\* devpts_stat
devpts_stat(k, path, beyond, buf) ==
    LET n == devpts_get_pty_num(k, path, beyond)
    IN  IF n = _ENOENT
        THEN [ret |-> _ENOENT, stat |-> buf, fault |-> FALSE]
        ELSE LET r == devpts_stat_num(k, n, buf)
             IN  [ret |-> 0, stat |-> r.stat, fault |-> r.fault]

\* devpts_open: ERR_PTR(_ENOENT), or a new handle carrying the number.
devpts_open(k, path, beyond) ==
    LET n == devpts_get_pty_num(k, path, beyond)
    IN  IF n = _ENOENT
        THEN [err |-> _ENOENT, pty_num |-> 0]
        ELSE [err |-> 0, pty_num |-> n]

\* The do-while loop of devpts_readdir, entered with the local pty_num = n.
\* devpts_pty_exists is only asked about numbers below MAX_PTYS here.
RECURSIVE readdir_loop(_, _)
readdir_loop(k, n) ==
    IF n + 1 < MAX_PTYS /\ ~devpts_pty_exists(k, n + 1, FALSE)
    THEN readdir_loop(k, n + 1)
    ELSE n + 1

\* The indices at which the loop of devpts_readdir reads pty_slave.ttys.
RECURSIVE readdir_loop_reads(_, _)
readdir_loop_reads(k, n) ==
    IF n + 1 < MAX_PTYS
    THEN devpts_pty_exists_reads(n + 1)
            \cup (IF ~devpts_pty_exists(k, n + 1, FALSE)
                  THEN readdir_loop_reads(k, n + 1)
                  ELSE {})
    ELSE {}

devpts_readdir_reads(k, offset) == readdir_loop_reads(k, offset - 1)

\* devpts_readdir on a handle whose fd->offset is `offset'.
devpts_readdir(k, offset) ==
    LET n == readdir_loop(k, offset - 1)
    IN  IF n >= MAX_PTYS
        THEN [ret |-> 0, name |-> <<>>, inode |-> 0]
        ELSE [ret |-> 1, name |-> itoa(n), inode |-> n + 3]

----------------------------------------------------------------------------
Ret(op, val, a) == [op |-> op, val |-> val, arg |-> a]

NoStat == [fmt |-> "none", perms |-> 0, uid |-> 0, gid |-> 0, inode |-> 0,
           rdev |-> dev_make(0, 0)]

\* No devpts handle open.  An open handle carries fd->pty_num; `path' is the
\* path it was opened with, `tab' the slave table at that time, `buf' what
\* getpath has last written (`got' says that it has).
NoFd == [open |-> FALSE, pty_num |-> 0, path |-> <<>>, tab |-> <<>>,
         got |-> FALSE, buf |-> <<>>]

\* No master is being released.  Otherwise `tty' is the master, `slave' the
\* local variable of pty_master_cleanup and `i' the step it is about to take.
NoCleanup == [pc |-> "idle", tty |-> NULL, slave |-> NULL, i |-> 0]

\* No write on a slave is in progress.  Otherwise `tty' is the slave and,
\* from pc = "input", `other' the argument pty_write has evaluated for
\* tty_input.  `null' and `torn' say that a write has handed tty_input a NULL
\* terminal, or a master whose cleanup had begun.
NoWrite == [pc |-> "idle", tty |-> NULL, other |-> NULL,
            null |-> FALSE, torn |-> FALSE]

\* No devpts_stat is between its lookup and devpts_stat_num.  Otherwise
\* pty_num is the number the lookup returned.  `stat_failed' and
\* `fstat_failed' say that the assert of devpts_stat_num has failed on a
\* number of the table, reached from devpts_stat or from devpts_fstat.
NoStatCall == [pc |-> "idle", pty_num |-> 0,
               stat_failed |-> FALSE, fstat_failed |-> FALSE]

\* A root handle freshly opened (or rewound): fd->offset = 0.  `yielded' is
\* what readdir has returned since, `done' that it has returned 0, `stable'
\* that the slave table has not changed since the enumeration began.
DirInit == [offset |-> 0, yielded |-> <<>>, done |-> FALSE, stable |-> TRUE]

\* Values of a slave's pty.perms, pty.uid and pty.gid: as allocated, and as
\* set from outside (mode 0620, a user, a group).
Attrs ==
    {[perms |-> 0, uid |-> 0, gid |-> 0], [perms |-> 400, uid |-> 501, gid |-> 20]}

\* The paths looked up: the root, malformed ones, a number with a leading
\* zero, and every number up to one past the table's capacity.
Paths ==
    {<<>>, <<"/">>, <<"0">>, <<"/", "x">>, <<"/", "0", "x">>, <<"/", "0", "/">>,
     <<"/", "0", "0">>}
        \cup {<<"/">> \o itoa(n) : n \in 0..(MAX_PTYS + 1)}

Init ==
    /\ tty = [i \in TtyIds |-> FreeTty]
    /\ master_ttys = [n \in PtyNums |-> NULL]
    /\ slave_ttys = [n \in PtyNums |-> NULL]
    /\ fds = [i \in TtyIds |-> 0]
    /\ pc = [t \in Threads |-> "idle"]
    /\ pty_num = [t \in Threads |-> 0]
    /\ ret = Ret("none", 0, 0)
    /\ statbuf = NoStat
    /\ dir = DirInit
    /\ fault = FALSE
    /\ assigned = [i \in TtyIds |-> -1]
    /\ made = [i \in TtyIds |-> NULL]
    /\ cleaned = {}
    /\ sent = [i \in TtyIds |-> <<>>]
    /\ overlapped = FALSE
    /\ e2e = "start"
    /\ devfd = NoFd
    /\ oob = FALSE
    /\ cl = NoCleanup
    /\ wr = NoWrite
    /\ tlock = [l \in Locks |-> "none"]
    /\ st = NoStatCall

\* The kernel state after a step.  An enumeration in progress notes a change
\* of the slave table.
SetK(k) ==
    /\ tty' = k.tty
    /\ master_ttys' = k.master_ttys
    /\ slave_ttys' = k.slave_ttys
    /\ dir' = IF k.slave_ttys = slave_ttys \/ dir = DirInit
              THEN dir
              ELSE [dir EXCEPT !.stable = FALSE]

\* The cells a step to kernel state k frees.
Freed(k) == {i \in TtyIds : tty[i].driver # "free" /\ k.tty[i].driver = "free"}

\* The end-to-end scenario, one call after the other from the initial state:
\* ptmx_open, SET_SLAVE_LOCK(0), open of the slave, close of the master; the
\* close of the slave descriptor may come before or after that of the
\* master.  Any other call that changes the kernel state leaves the scenario.
E2ENext(call) ==
    CASE e2e = "start" /\ call = "scan" -> "scanned"
      [] e2e = "scanned" /\ call = "get" -> "allocated"
      [] e2e = "allocated" /\ call = "unlock" -> "unlocked"
      [] e2e = "unlocked" /\ call = "slave_open" -> "opened"
      [] e2e = "opened" /\ call = "close_master" -> "released"
      [] e2e = "opened" /\ call = "close_slave" -> "slave_closed"
      [] e2e = "slave_closed" /\ call = "close_master" -> "released_closed"
      [] e2e = "released" /\ call = "close_slave" -> "released_closed"
      [] OTHER -> "off"

\* ptmx_open with ttys_lock kept until tty_get has returned: no scan runs
\* while another thread is between its scan and its tty_get.
PtmxScanK_keeps_lock(t) ==
    /\ pc[t] = "idle"
    /\ \A u \in Threads : pc[u] # "scanned"
    /\ LET n == ptmx_scan(K, 0)
       IN  /\ pty_num' = [pty_num EXCEPT ![t] = IF n = MAX_PTYS THEN 0 ELSE n]
           /\ pc' = [pc EXCEPT ![t] = IF n = MAX_PTYS THEN "idle" ELSE "scanned"]
    /\ overlapped' = (overlapped \/ \E u \in Threads : pc[u] = "scanned")
    /\ e2e' = E2ENext("scan")
    /\ UNCHANGED <<tty, master_ttys, slave_ttys, fds, statbuf, dir, fault,
                   assigned, made, cleaned, sent>>
    /\ oob' = (oob \/ ~(ptmx_scan_reads(K, 0) \subseteq PtyNums))
    /\ UNCHANGED aux

\* ptmx_open up to unlock(&ttys_lock): the scan under the table lock.  A
\* full table makes the call return at once.
PtmxScanK(t) ==
    /\ pc[t] = "idle"
    /\ LET n == ptmx_scan(K, 0)
       IN  /\ pty_num' = [pty_num EXCEPT ![t] = IF n = MAX_PTYS THEN 0 ELSE n]
           /\ pc' = [pc EXCEPT ![t] = IF n = MAX_PTYS THEN "idle" ELSE "scanned"]
    /\ overlapped' = (overlapped \/ \E u \in Threads : pc[u] = "scanned")
    /\ e2e' = E2ENext("scan")
    /\ UNCHANGED <<tty, master_ttys, slave_ttys, fds, statbuf, dir, fault,
                   assigned, made, cleaned, sent>>
    /\ oob' = (oob \/ ~(ptmx_scan_reads(K, 0) \subseteq PtyNums))
    /\ UNCHANGED aux

\* ... which then returns _ENOSPC.
PtmxScan(t) ==
    /\ PtmxScanK(t)
    /\ ret' = IF ptmx_scan(K, 0) = MAX_PTYS
              THEN Ret("ptmx_open", _ENOSPC, 0)
              ELSE ret

\* ptmx_open from tty_get on: obtain the master for pty_num and attach the
\* file descriptor to it.  (The heap and the reference counts are bounded:
\* the call waits while the model has no room.)
PtmxGetK(t) ==
    /\ pc[t] = "scanned"
    /\ LET n == pty_num[t]
           r == tty_get_master(K, n)
           fresh == master_ttys[n] = NULL
       IN  /\ IF fresh
              THEN Cardinality(FreeIds(K)) >= 2
              ELSE tty[master_ttys[n]].refcount < MaxRef
           /\ SetK(r.k)
           /\ fds' = [fds EXCEPT ![r.tty] = @ + 1]
           /\ assigned' = IF fresh THEN [assigned EXCEPT ![r.tty] = n] ELSE assigned
           /\ made' = IF fresh THEN [made EXCEPT ![r.tty] = r.k.tty[r.tty].other]
                      ELSE made
    /\ pc' = [pc EXCEPT ![t] = "idle"]
    /\ pty_num' = [pty_num EXCEPT ![t] = 0]
    /\ e2e' = E2ENext("get")
    /\ UNCHANGED <<statbuf, fault, cleaned, sent, overlapped>>
    /\ UNCHANGED <<aux, oob>>

PtmxGet(t) ==
    /\ PtmxGetK(t)
    /\ ret' = Ret("ptmx_open", 0, 0)

\* ioctl on an open master.
MasterIoctlK(m, cmd, a) ==
    /\ tty[m].driver = "master" /\ fds[m] > 0
    /\ SetK(pty_ioctl(K, m, cmd, a).k)
    /\ e2e' = E2ENext(IF cmd = TIOCSPTLCK_ /\ a = 0 THEN "unlock" ELSE "ioctl")
    /\ UNCHANGED <<fds, pc, pty_num, statbuf, fault, assigned, made, cleaned,
                   sent, overlapped>>
    /\ UNCHANGED <<aux, oob>>

MasterIoctl(m, cmd, a) ==
    /\ MasterIoctlK(m, cmd, a)
    /\ ret' = Ret("ioctl", pty_ioctl(K, m, cmd, a).ret, pty_ioctl(K, m, cmd, a).arg)

\* tty_open of the slave device n by the generic layer: take a reference to
\* the registered slave, ask the driver's open, and give the reference back
\* when it refuses.  With no slave registered the generic layer would
\* construct one, which the slave driver's init (pty_return_eio) refuses.
tty_open_slave(k, n) ==
    IF k.slave_ttys[n] = NULL
    THEN [k |-> k, err |-> pty_return_eio(k, NULL), tty |-> NULL]
    ELSE LET s == k.slave_ttys[n]
             err == pty_slave_open(k, s)
         IN  IF err < 0
             THEN [k |-> k, err |-> err, tty |-> NULL]
             ELSE [k |-> [k EXCEPT !.tty[s].refcount = @ + 1], err |-> 0, tty |-> s]

\* open of the slave device n.
SlaveOpenK(n) ==
    /\ LET r == tty_open_slave(K, n)
       IN  /\ r.tty # NULL => tty[r.tty].refcount < MaxRef
           /\ SetK(r.k)
           /\ fds' = IF r.tty # NULL THEN [fds EXCEPT ![r.tty] = @ + 1] ELSE fds
    /\ e2e' = E2ENext(IF n = 0 THEN "slave_open" ELSE "slave_open_other")
    /\ UNCHANGED <<pc, pty_num, statbuf, fault, assigned, made, cleaned, sent,
                   overlapped>>
    /\ UNCHANGED <<aux, oob>>

SlaveOpen(n) ==
    /\ SlaveOpenK(n)
    /\ ret' = Ret("slave_open", tty_open_slave(K, n).err, 0)

\* close of a file descriptor of a terminal: tty_release.
CloseK(t) ==
    /\ fds[t] > 0
    /\ LET k == tty_release(K, t)
           gone == Freed(k)
           slave == tty[t].other
       IN  /\ SetK(k)
           /\ fds' = [fds EXCEPT ![t] = @ - 1]
           /\ assigned' = [i \in TtyIds |-> IF i \in gone THEN -1 ELSE assigned[i]]
           /\ made' = [i \in TtyIds |-> IF i \in gone THEN NULL ELSE made[i]]
           /\ sent' = [i \in TtyIds |-> IF i \in gone THEN <<>> ELSE sent[i]]
           /\ cleaned' = IF tty[t].driver = "master" /\ t \in gone
                         THEN (cleaned \cup {slave}) \ gone
                         ELSE cleaned \ gone
    /\ e2e' = E2ENext(IF tty[t].driver = "master" THEN "close_master"
                      ELSE "close_slave")
    /\ UNCHANGED <<pc, pty_num, statbuf, fault, overlapped>>
    /\ UNCHANGED <<aux, oob>>

Close(t) ==
    /\ CloseK(t)
    /\ ret' = Ret("close", 0, 0)

\* write on an open terminal of either side.  The generic layer refuses a
\* terminal that has been hung up before it reaches the driver.
Write(t, buf) ==
    /\ tty[t].driver # "free" /\ fds[t] > 0 /\ ~tty[t].hung_up
    /\ IF tty[t].other = NULL
       THEN /\ fault' = TRUE
            /\ UNCHANGED <<tty, master_ttys, slave_ttys, dir, sent>>
       ELSE /\ Len(tty[tty[t].other].queue) + Len(buf) <= MaxQueue
            /\ SetK(pty_write(K, t, buf))
            /\ sent' = [sent EXCEPT ![t] = @ \o buf]
            /\ fault' = fault
    /\ e2e' = E2ENext("write")
    /\ UNCHANGED <<fds, pc, pty_num, ret, statbuf, assigned, made, cleaned,
                   overlapped>>
    /\ UNCHANGED <<aux, oob>>

\* The permissions and the owner of a slave are set from outside this file.
SetAttr(s, a) ==
    /\ tty[s].driver = "slave"
    /\ [perms |-> tty[s].perms, uid |-> tty[s].uid, gid |-> tty[s].gid] # a
    /\ SetK([K EXCEPT !.tty[s].perms = a.perms,
                      !.tty[s].uid = a.uid,
                      !.tty[s].gid = a.gid])
    /\ e2e' = E2ENext("setattr")
    /\ UNCHANGED <<fds, pc, pty_num, ret, statbuf, fault, assigned, made, cleaned,
                   sent, overlapped>>
    /\ UNCHANGED <<aux, oob>>

\* stat of a devpts path.
DevptsStat(path, beyond) ==
    /\ LET r == devpts_stat(K, path, beyond, statbuf)
       IN  /\ ret' = Ret("stat", r.ret, 0)
           /\ statbuf' = r.stat
           /\ fault' = (fault \/ r.fault)
    /\ UNCHANGED <<tty, master_ttys, slave_ttys, fds, pc, pty_num, dir,
                   assigned, made, cleaned, sent, overlapped, e2e>>
    /\ oob' = (oob \/ ~(devpts_stat_reads(K, path, beyond) \subseteq PtyNums))
    /\ UNCHANGED aux

\* open of a devpts path: a handle on success.
DevptsOpen(path, beyond) ==
    /\ ~devfd.open
    /\ LET r == devpts_open(K, path, beyond)
       IN  /\ ret' = Ret("open", r.err, 0)
           /\ devfd' = IF r.err = 0
                       THEN [open |-> TRUE, pty_num |-> r.pty_num, path |-> path,
                             tab |-> slave_ttys, got |-> FALSE, buf |-> <<>>]
                       ELSE devfd
    /\ oob' = (oob \/ ~(devpts_get_pty_num_reads(path) \subseteq PtyNums))
    /\ UNCHANGED <<tty, master_ttys, slave_ttys, fds, pc, pty_num, statbuf, dir,
                   fault, assigned, made, cleaned, sent, overlapped, e2e, cl, wr, tlock,
                   st>>

\* getpath on the devpts handle.
DevptsGetpath ==
    /\ devfd.open
    /\ devfd' = [devfd EXCEPT !.got = TRUE, !.buf = devpts_getpath(devfd.pty_num)]
    /\ ret' = Ret("getpath", 0, 0)
    /\ UNCHANGED <<tty, master_ttys, slave_ttys, fds, pc, pty_num, statbuf, dir,
                   fault, assigned, made, cleaned, sent, overlapped, e2e, oob, cl, wr,
                   tlock, st>>

\* close of the devpts handle.
DevptsClose ==
    /\ devfd.open
    /\ devfd' = NoFd
    /\ ret' = Ret("close", 0, 0)
    /\ UNCHANGED <<tty, master_ttys, slave_ttys, fds, pc, pty_num, statbuf, dir,
                   fault, assigned, made, cleaned, sent, overlapped, e2e, oob, cl, wr,
                   tlock, st>>

\* devpts_stat, line 188: the lookup of the path, with ttys_lock taken and
\* given back inside devpts_pty_exists.
StatLookup(path, beyond) ==
    /\ st.pc = "idle"
    /\ LET n == devpts_get_pty_num(K, path, beyond)
       IN  IF n = _ENOENT
           THEN /\ ret' = Ret("stat", _ENOENT, 0)
                /\ UNCHANGED st
           ELSE /\ st' = [st EXCEPT !.pc = "resolved", !.pty_num = n]
                /\ UNCHANGED ret
    /\ oob' = (oob \/ ~(devpts_get_pty_num_reads(path) \subseteq PtyNums))
    /\ UNCHANGED <<tty, master_ttys, slave_ttys, fds, pc, pty_num, statbuf, dir,
                   fault, assigned, made, cleaned, sent, overlapped, e2e, devfd,
                   cl, wr, tlock>>

\* devpts_stat, lines 191-192: devpts_stat_num on the number resolved.
StatNum ==
    /\ st.pc = "resolved"
    /\ LET r == devpts_stat_num(K, st.pty_num, statbuf)
       IN  /\ statbuf' = r.stat
           /\ fault' = (fault \/ r.fault)
           /\ st' = [st EXCEPT !.pc = "idle", !.pty_num = 0,
                               !.stat_failed =
                                   @ \/ (r.fault /\ st.pty_num \in PtyNums)]
    /\ ret' = Ret("stat", 0, 0)
    /\ oob' = (oob \/ ~(devpts_stat_num_reads(st.pty_num) \subseteq PtyNums))
    /\ UNCHANGED <<tty, master_ttys, slave_ttys, fds, pc, pty_num, dir,
                   assigned, made, cleaned, sent, overlapped, e2e, devfd, cl, wr,
                   tlock>>

\* fstat on the devpts handle.
DevptsFstat ==
    /\ devfd.open
    /\ LET r == devpts_stat_num(K, devfd.pty_num, statbuf)
       IN  /\ statbuf' = r.stat
           /\ fault' = (fault \/ r.fault)
           /\ st' = [st EXCEPT !.fstat_failed =
                                   @ \/ (r.fault /\ devfd.pty_num \in PtyNums)]
    /\ ret' = Ret("fstat", 0, 0)
    /\ oob' = (oob \/ ~(devpts_stat_num_reads(devfd.pty_num) \subseteq PtyNums))
    /\ UNCHANGED <<tty, master_ttys, slave_ttys, fds, pc, pty_num, dir,
                   assigned, made, cleaned, sent, overlapped, e2e, devfd, cl, wr,
                   tlock>>

\* One readdir on the root handle by a caller that, as the generic
\* directory code does, moves fd->offset on by one for each entry returned.
Readdir ==
    /\ ~dir.done
    /\ LET r == devpts_readdir(K, dir.offset)
       IN  /\ dir' = IF r.ret = 0
                     THEN [dir EXCEPT !.done = TRUE]
                     ELSE [dir EXCEPT !.offset = @ + 1,
                                      !.yielded = Append(@, [name |-> r.name,
                                                             inode |-> r.inode])]
           /\ ret' = Ret("readdir", r.ret, 0)
    /\ UNCHANGED <<tty, master_ttys, slave_ttys, fds, pc, pty_num, statbuf,
                   fault, assigned, made, cleaned, sent, overlapped, e2e>>
    /\ oob' = (oob \/ ~(devpts_readdir_reads(K, dir.offset) \subseteq PtyNums))
    /\ UNCHANGED aux

\* The caller rewinds the root handle: fd->offset = 0.
Rewind ==
    /\ dir # DirInit
    /\ dir' = DirInit
    /\ ret' = Ret("rewind", 0, 0)
    /\ UNCHANGED <<tty, master_ttys, slave_ttys, fds, pc, pty_num, statbuf,
                   fault, assigned, made, cleaned, sent, overlapped, e2e>>
    /\ UNCHANGED <<aux, oob>>

----------------------------------------------------------------------------
\* The release of a master and a write on its slave, step by step

\* The history variables forget the cells a step to kernel state k frees.
Forget(k) ==
    /\ assigned' = [i \in TtyIds |-> IF i \in Freed(k) THEN -1 ELSE assigned[i]]
    /\ made' = [i \in TtyIds |-> IF i \in Freed(k) THEN NULL ELSE made[i]]
    /\ sent' = [i \in TtyIds |-> IF i \in Freed(k) THEN <<>> ELSE sent[i]]

\* close of the last descriptor of master m: tty_release drops the last
\* reference and enters pty_master_cleanup, whose line 24 reads the slave.
ClBegin(m) ==
    /\ cl.pc = "idle"
    /\ tty[m].driver = "master" /\ fds[m] > 0 /\ tty[m].refcount = 1
    /\ \A l \in CallerLocks("cleanup", m) : tlock[l] = "none"
    /\ tlock' = [l \in Locks |->
                    IF l \in CallerLocks("cleanup", m) THEN "cl" ELSE tlock[l]]
    /\ SetK([K EXCEPT !.tty[m].refcount = 0])
    /\ fds' = [fds EXCEPT ![m] = @ - 1]
    /\ cl' = [pc |-> "cleanup", tty |-> m, slave |-> tty[m].other, i |-> 1]
    /\ UNCHANGED <<pc, pty_num, ret, statbuf, fault, assigned, made, cleaned,
                   sent, overlapped, e2e, devfd, st, oob, wr>>

\* The next step of pty_master_cleanup.
ClStep ==
    /\ cl.pc = "cleanup"
    /\ cl.i <= Len(pty_master_cleanup_events(K, cl.tty))
    /\ LET ev == pty_master_cleanup_events(K, cl.tty)[cl.i]
           k == cleanup_step(K, ev)
       IN  /\ ev.op = "lock" => tlock[ev.obj] = "none"
           /\ tlock' = CASE ev.op = "lock" -> [tlock EXCEPT ![ev.obj] = "cl"]
                         [] ev.op = "unlock" -> [tlock EXCEPT ![ev.obj] = "none"]
                         [] OTHER -> tlock
           /\ SetK(k)
           /\ Forget(k)
           /\ cleaned' = cleaned \ Freed(k)
    /\ cl' = [cl EXCEPT !.i = @ + 1]
    /\ UNCHANGED <<fds, pc, pty_num, ret, statbuf, fault, overlapped, e2e, devfd, st,
                   oob, wr>>

\* pty_master_cleanup has returned: tty_release empties the master's slot,
\* frees the master, and its caller gives the locks back.
ClEnd ==
    /\ cl.pc = "cleanup"
    /\ cl.i > Len(pty_master_cleanup_events(K, cl.tty))
    /\ LET k == [K EXCEPT !.master_ttys[tty[cl.tty].num] = NULL,
                          !.tty[cl.tty] = FreeTty]
       IN  /\ SetK(k)
           /\ Forget(k)
    /\ cleaned' = IF tty[cl.slave].driver = "slave" /\ tty[cl.slave].other = NULL
                  THEN cleaned \cup {cl.slave}
                  ELSE cleaned
    /\ tlock' = [l \in Locks |-> IF tlock[l] = "cl" THEN "none" ELSE tlock[l]]
    /\ cl' = NoCleanup
    /\ e2e' = E2ENext("close_master")
    /\ UNCHANGED <<fds, pc, pty_num, ret, statbuf, fault, overlapped, devfd, st, oob,
                   wr>>

\* write on the open slave s, in the generic layer: it takes the terminal's
\* lock and goes on to the driver if the terminal has not been hung up.
WrBegin(s) ==
    /\ wr.pc = "idle"
    /\ tty[s].driver = "slave" /\ fds[s] > 0
    /\ tlock[s] = "none"
    /\ ~tty[s].hung_up
    /\ tlock' = [tlock EXCEPT ![s] = "wr"]
    /\ wr' = [wr EXCEPT !.pc = "call", !.tty = s]
    /\ UNCHANGED <<tty, master_ttys, slave_ttys, fds, pc, pty_num, ret, statbuf,
                   dir, fault, assigned, made, cleaned, sent, overlapped, e2e,
                   devfd, st, oob, cl>>

\* pty_write, line 56: the argument tty->pty.other is evaluated.
WrCall ==
    /\ wr.pc = "call"
    /\ wr' = [wr EXCEPT !.pc = "input", !.other = tty[wr.tty].other]
    /\ UNCHANGED <<tty, master_ttys, slave_ttys, fds, pc, pty_num, ret, statbuf,
                   dir, fault, assigned, made, cleaned, sent, overlapped, e2e,
                   devfd, st, oob, cl, tlock>>

\* pty_write, line 56: tty_input is called with that argument; then the
\* generic layer gives the lock back.  A NULL or freed terminal is a fault; a
\* full queue takes nothing.
WrInput(b) ==
    /\ wr.pc = "input"
    /\ LET o == wr.other
           dead == o = NULL \/ tty[o].driver # "master"
           room == ~dead /\ Len(tty[o].queue) < MaxQueue
       IN  /\ fault' = (fault \/ dead)
           /\ IF room
              THEN /\ SetK(tty_input(K, o, <<b>>))
                   /\ sent' = [sent EXCEPT ![wr.tty] = @ \o <<b>>]
              ELSE UNCHANGED <<tty, master_ttys, slave_ttys, dir, sent>>
           /\ wr' = [pc |-> "idle", tty |-> NULL, other |-> NULL,
                     null |-> (wr.null \/ o = NULL),
                     torn |-> (wr.torn \/ (o # NULL /\ (dead \/ cl.tty = o)))]
    /\ tlock' = [tlock EXCEPT ![wr.tty] = "none"]
    /\ e2e' = E2ENext("write")
    /\ UNCHANGED <<fds, pc, pty_num, ret, statbuf, assigned, made, cleaned,
                   overlapped, devfd, st, oob, cl>>

Next ==
    \/ \E t \in Threads : PtmxScan(t)
    \/ \E t \in Threads : PtmxGet(t)
    \/ \E m \in TtyIds, cmd \in Cmds, a \in Dwords : MasterIoctl(m, cmd, a)
    \/ \E n \in PtyNums : SlaveOpen(n)
    \/ \E t \in TtyIds : Close(t)

\* The pair life cycle with two threads inside ptmx_open, every call's
\* return value recorded.
Spec == Init /\ [][Next]_vars

\* The life cycle as one thread drives it (ptmx_open, SET_SLAVE_LOCK(0), open
\* of a slave, close), return values not recorded.
Life ==
    /\ UNCHANGED ret
    /\ \/ PtmxScanK("t1")
       \/ PtmxGetK("t1")
       \/ \E m \in TtyIds : MasterIoctlK(m, TIOCSPTLCK_, 0)
       \/ \E n \in PtyNums : SlaveOpenK(n)
       \/ \E t \in TtyIds : CloseK(t)

NextIO ==
    \/ Life
    \/ \E t \in TtyIds, buf \in Bufs : Write(t, buf)

\* The life cycle with writes on both sides.
SpecIO == Init /\ [][NextIO]_vars

NextFs ==
    \/ Life
    \/ Readdir
    \/ Rewind

\* The life cycle with readdir on the devpts root.
SpecFs == Init /\ [][NextFs]_vars

NextStat ==
    \/ Life
    \/ \E path \in Paths, beyond \in BOOLEAN : DevptsStat(path, beyond)

\* The life cycle with stat of devpts paths.
SpecStat == Init /\ [][NextStat]_vars

NextAttr ==
    \/ Life
    \/ \E s \in TtyIds, a \in Attrs : SetAttr(s, a)
    \/ \E path \in Paths, beyond \in BOOLEAN : DevptsStat(path, beyond)

\* The life cycle with stat of devpts paths and slaves whose permissions and
\* owner change.
SpecAttr == Init /\ [][NextAttr]_vars

NextFd ==
    \/ Life
    \/ \E path \in Paths, beyond \in BOOLEAN : DevptsOpen(path, beyond)
    \/ DevptsGetpath
    \/ DevptsClose

\* The life cycle with a devpts handle.
SpecFd == Init /\ [][NextFd]_vars

\* The paths of the root and of the pair numbers.
PtyPaths == {<<"/">>} \cup {<<"/">> \o itoa(n) : n \in PtyNums}

NextFstat ==
    \/ Life
    \/ \E path \in PtyPaths : DevptsOpen(path, FALSE)
    \/ DevptsFstat
    \/ DevptsClose
    \/ \E path \in PtyPaths : StatLookup(path, FALSE)
    \/ StatNum

\* The life cycle with stat of devpts paths, the lookup and devpts_stat_num
\* as separate steps, and fstat of a devpts handle.
SpecFstat == Init /\ [][NextFstat]_vars

NextRace ==
    \/ Life /\ cl.pc = "idle" /\ wr.pc = "idle" /\ \A t \in TtyIds :
                 (tty[t].driver = "master" /\ tty[t].refcount = 1)
                     => tty'[t].driver = "master"
    \/ \E m \in TtyIds : ClBegin(m)
    \/ ClStep
    \/ ClEnd
    \/ \E s \in TtyIds : WrBegin(s)
    \/ WrCall
    \/ \E b \in Bytes : WrInput(b)

\* The life cycle with the release of a master taken step by step and a
\* write on a slave in progress beside it.  The other calls of the life
\* cycle run between releases and writes.
SpecRace == Init /\ [][NextRace]_vars

----------------------------------------------------------------------------
\* Teardown, pairing, lock gating

Masters == {i \in TtyIds : tty[i].driver = "master"}
Slaves == {i \in TtyIds : tty[i].driver = "slave"}

\* C1: once pty_master_cleanup has completed, the slave's `other' is NULL
\* and every later open of that slave, by the driver's pty_slave_open and by
\* the generic open of its device, returns _EIO, locked or not.
C1_TeardownSafety ==
    \A s \in cleaned :
        /\ tty[s].driver = "slave"
        /\ tty[s].other = NULL
        /\ pty_slave_open(K, s) = _EIO
        /\ slave_ttys[tty[s].num] = s => tty_open_slave(K, tty[s].num).err = _EIO

\* A slave that outlived its master's cleanup, unlocked and still in the
\* table, whose open has just been refused.
C1_Witness ==
    /\ ret = Ret("slave_open", _EIO, 0)
    /\ \E s \in cleaned : ~tty[s].locked /\ slave_ttys[tty[s].num] = s

\* C2: for every live master, master.other is the slave its init created,
\* slave.other is the master, both carry the same number, and the slave
\* table's slot for that number holds that slave.
PairingInv ==
    \A m \in Masters :
        LET s == made[m]
        IN  /\ s # NULL
            /\ tty[m].other = s
            /\ tty[s].driver = "slave"
            /\ tty[s].other = m
            /\ tty[s].num = tty[m].num
            /\ slave_ttys[tty[m].num] = s

\* ... and only the master's cleanup (the last close of a master) changes an
\* `other' link of a terminal that stays alive.
LinksStable ==
    \A i \in TtyIds :
        (tty[i].driver # "free" /\ tty'[i].driver = tty[i].driver
            /\ tty'[i].other # tty[i].other)
        => \E m \in Masters : Close(m) /\ tty'[m].driver = "free"

C2_PairingInvariant == []PairingInv /\ [][LinksStable]_vars

\* C3: a slave is created locked; pty_slave_open returns _EIO while it is
\* locked; SET_SLAVE_LOCK with 0 makes pty_slave_open of a live master's
\* slave return 0, and it keeps returning 0 while the slave stays unlocked
\* and the master alive; SET_SLAVE_LOCK with a non-zero argument makes it
\* return _EIO again.
LockGatingInv ==
    /\ \A s \in Slaves : tty[s].locked => pty_slave_open(K, s) = _EIO
    /\ \A m \in Masters : ~tty[tty[m].other].locked
                            => pty_slave_open(K, tty[m].other) = 0

LockGatingStep ==
    /\ \A t \in Threads :
          (PtmxGet(t) /\ master_ttys[pty_num[t]] = NULL)
          => tty'[tty'[master_ttys'[pty_num[t]]].other].locked
    /\ \A m \in Masters, a \in Dwords :
          MasterIoctl(m, TIOCSPTLCK_, a)
          => /\ ret'.val = 0
             /\ pty_slave_open(K', tty[m].other) = IF a = 0 THEN 0 ELSE _EIO

C3_LockGating == []LockGatingInv /\ [][LockGatingStep]_vars

\* A live pair whose slave was unlocked, opened, and locked again by a
\* non-zero SET_SLAVE_LOCK.
C3_Witness ==
    /\ ret = Ret("ioctl", 0, 2)
    /\ \E m \in Masters : tty[tty[m].other].locked /\ fds[tty[m].other] > 0

----------------------------------------------------------------------------
\* Allocation

\* C4: as long as no ptmx_open has scanned while another was between its
\* scan and its tty_get, no two live masters and no two live slaves carry
\* the same pair number.
C4_Uniqueness ==
    ~overlapped =>
        \A i, j \in TtyIds :
            (i # j /\ tty[i].driver # "free" /\ tty[i].driver = tty[j].driver)
            => tty[i].num # tty[j].num

\* Without overlap: a slave that outlived its master still holds number 0
\* while a later, live pair holds number 1.
C4_Witness ==
    /\ ~overlapped
    /\ \E s \in cleaned : tty[s].num = 0
    /\ \E m \in Masters : tty[m].num = 1

\* C7: slot n of the slave table is non-NULL if and only if a live slave
\* with number n exists, and then the slot refers to that slave: every slot
\* refers to a live slave of its number, and every live slave is in its slot.
C7_SlaveTableInvariant ==
    /\ \A n \in PtyNums :
          slave_ttys[n] # NULL
          => tty[slave_ttys[n]].driver = "slave" /\ tty[slave_ttys[n]].num = n
    /\ \A s \in Slaves : slave_ttys[tty[s].num] = s

\* C8: ptmx_open returns _ENOSPC, at once and changing nothing, exactly
\* when every slot is non-NULL at its scan; otherwise it goes on to tty_get
\* with the lowest NULL slot of the scan, and that is the number of the
\* master it obtains.
AllocStep ==
    \A t \in Threads :
        LET full == \A n \in PtyNums : slave_ttys[n] # NULL
        IN  /\ PtmxScan(t) =>
               /\ full <=> pc'[t] = "idle"
               /\ full => /\ ret' = Ret("ptmx_open", _ENOSPC, 0)
                          /\ UNCHANGED <<tty, master_ttys, slave_ttys, fds>>
               /\ ~full => /\ pty_num'[t] \in PtyNums
                           /\ slave_ttys[pty_num'[t]] = NULL
                           /\ \A j \in PtyNums :
                                 j < pty_num'[t] => slave_ttys[j] # NULL
                           /\ ret' = ret
            /\ PtmxGet(t) =>
               /\ ret' = Ret("ptmx_open", 0, 0)
               /\ master_ttys'[pty_num[t]] # NULL
               /\ tty'[master_ttys'[pty_num[t]]].driver = "master"
               /\ tty'[master_ttys'[pty_num[t]]].num = pty_num[t]
               /\ fds'[master_ttys'[pty_num[t]]] = fds[master_ttys'[pty_num[t]]] + 1

C8_AllocatorResult == [][AllocStep]_vars

\* A full table, and the ptmx_open that has just been refused on it.
C8_Witness ==
    /\ ret = Ret("ptmx_open", _ENOSPC, 0)
    /\ \A n \in PtyNums : slave_ttys[n] # NULL

\* C9: on every live master, GET_SLAVE_NUMBER returns 0, writes the number
\* ptmx_open constructed the master for, and changes nothing else.
C9_QueryCorrectness ==
    \A m \in Masters, a \in Dwords :
        LET r == pty_ioctl(K, m, TIOCGPTN_, a)
        IN  r.ret = 0 /\ r.arg = assigned[m] /\ r.k = K

\* GET_SLAVE_NUMBER has just answered 1 on the master of pair 1, after
\* pair 0 was allocated, used and released.
C9_Witness ==
    /\ ret = Ret("ioctl", 0, 1)
    /\ slave_ttys[0] = NULL
    /\ \E m \in Masters : assigned[m] = 1

----------------------------------------------------------------------------
\* Forwarding

\* C10: each write on a terminal appends exactly its bytes to the queue of
\* the other side and to no other queue, so that the queue of each half of
\* a live pair is the concatenation of the writes made on the other half.
ForwardingInv ==
    \A m \in Masters :
        /\ tty[tty[m].other].queue = sent[m]
        /\ tty[m].queue = sent[tty[m].other]

ForwardingStep ==
    \A t \in TtyIds, buf \in Bufs :
        Write(t, buf) =>
            \A i \in TtyIds :
                tty'[i].queue = IF i = tty[t].other
                                THEN tty[i].queue \o buf
                                ELSE tty[i].queue

C10_LoopbackForwarding == []ForwardingInv /\ [][ForwardingStep]_vars

\* Two writes on the master have reached the slave in order, and a write on
\* the slave has reached the master.
C10_Witness ==
    \E m \in Masters :
        /\ tty[tty[m].other].queue = <<"a", "b">>
        /\ tty[m].queue = <<"b">>

----------------------------------------------------------------------------
\* devpts

Present == {n \in PtyNums : slave_ttys[n] # NULL}

\* The directory entries of the numbers in S, in increasing order.
RECURSIVE EntriesOf(_)
EntriesOf(S) ==
    IF S = {} THEN <<>>
    ELSE LET n == CHOOSE x \in S : \A y \in S : x <= y
         IN  <<[name |-> itoa(n), inode |-> n + 3]>> \o EntriesOf(S \ {n})

IsPrefix(p, q) == Len(p) <= Len(q) /\ \A i \in 1..Len(p) : p[i] = q[i]

\* C5: with the slave table unchanged since the enumeration began at
\* offset 0, the entries readdir has returned so far are the first of the
\* present numbers in increasing order, each once, named in decimal with
\* inode number + 3; and when readdir returns 0 every present number has
\* been returned.
C5_Enumeration ==
    dir.stable =>
        /\ IsPrefix(dir.yielded, EntriesOf(Present))
        /\ dir.done => dir.yielded = EntriesOf(Present)

\* C6 as stated: in the end-to-end scenario the pair gets number 0 and stat
\* of "/0" reports a character device with inode 3; after SET_SLAVE_LOCK(0)
\* the slave opens; after the release of the master the slave's open fails
\* with _EIO and stat of "/0" fails with _ENOENT, slot 0 being NULL again.
StatZero(beyond) == devpts_stat(K, <<"/", "0">>, beyond, NoStat)

E2EAllocated ==
    e2e = "allocated" =>
        /\ \E m \in Masters : assigned[m] = 0 /\ tty[m].num = 0
        /\ \A b \in BOOLEAN :
              /\ StatZero(b).ret = 0
              /\ StatZero(b).stat.fmt = "S_IFCHR"
              /\ StatZero(b).stat.inode = 3

E2EUnlocked == e2e = "unlocked" => tty_open_slave(K, 0).err = 0

E2EGone ==
    /\ tty_open_slave(K, 0).err = _EIO
    /\ slave_ttys[0] = NULL
    /\ \A b \in BOOLEAN : StatZero(b).ret = _ENOENT

C6_ScenarioAsStated ==
    /\ E2EAllocated
    /\ E2EUnlocked
    /\ e2e \in {"released", "released_closed"} => E2EGone

\* C6 amended: the same, but after the release of the master stat of "/0"
\* fails with _ENOENT only once the slave descriptor opened in the scenario
\* has been closed as well; while it is open, the slave's open fails with
\* _EIO but slot 0 still holds the hung-up slave and stat of "/0" still
\* reports the character device with inode 3.
C6_Scenario ==
    /\ E2EAllocated
    /\ E2EUnlocked
    /\ e2e = "released_closed" => E2EGone
    /\ e2e = "released" =>
          /\ tty_open_slave(K, 0).err = _EIO
          /\ slave_ttys[0] # NULL
          /\ \A b \in BOOLEAN :
                /\ StatZero(b).ret = 0
                /\ StatZero(b).stat.fmt = "S_IFCHR"
                /\ StatZero(b).stat.inode = 3

\* The scenario run to its end, with the slave descriptor closed too, and
\* the stat of "/0" that has just failed.
C6_Witness ==
    /\ e2e = "released_closed"
    /\ ret = Ret("stat", _ENOENT, 0)

----------------------------------------------------------------------------
\* devpts lookups

\* A path of one component made of decimal digits.
WellFormed(path) ==
    /\ Len(path) >= 2
    /\ path[1] = "/"
    /\ \A i \in 2..Len(path) : isdigit(path[i])

\* The root, or a well-formed path whose number is a slot of the table that
\* is present.
Resolvable(path) ==
    \/ path = <<>>
    \/ /\ WellFormed(path)
       /\ atol(Tail(path)) \in PtyNums
       /\ slave_ttys[atol(Tail(path))] # NULL

\* C11: devpts_open and devpts_stat succeed for the root and for a
\* well-formed path naming a present slot of the table, and fail with
\* _ENOENT for every other path; the root is never reported as not found.
C11_PathResolution ==
    \A path \in Paths, b \in BOOLEAN :
        LET o == devpts_open(K, path, b)
            s == devpts_stat(K, path, b, NoStat)
        IN  /\ Resolvable(path) => o.err = 0 /\ s.ret = 0
            /\ ~Resolvable(path) => o.err = _ENOENT /\ s.ret = _ENOENT
            /\ path = <<>> => o.pty_num = -1

\* C12: stat of the root reports a directory with mode 0755 and inode 1;
\* stat of a present number n reports a character device with the slave's
\* current permissions, uid and gid, device (pseudo-slave major, n) and
\* inode n + 3, so that the inodes of distinct numbers differ and none is
\* the root's.
C12_StatResult ==
    /\ LET r == devpts_stat_num(K, -1, statbuf)
       IN  /\ ~r.fault
           /\ r.stat.fmt = "S_IFDIR" /\ r.stat.perms = 493 /\ r.stat.inode = 1
    /\ \A n \in Present :
          LET r == devpts_stat_num(K, n, statbuf)
              s == slave_ttys[n]
          IN  /\ ~r.fault
              /\ r.stat.fmt = "S_IFCHR"
              /\ r.stat.perms = tty[s].perms
              /\ r.stat.uid = tty[s].uid
              /\ r.stat.gid = tty[s].gid
              /\ r.stat.rdev.major = TTY_PSEUDO_SLAVE_MAJOR
              /\ r.stat.rdev.minor = n
              /\ r.stat.inode = n + 3
              /\ r.stat.inode # devpts_stat_num(K, -1, statbuf).stat.inode
    /\ \A n \in Present, m \in Present :
          n # m => devpts_stat_num(K, n, statbuf).stat.inode
                      # devpts_stat_num(K, m, statbuf).stat.inode

\* stat of "/1" has just reported the slave of pair 1 with the permissions
\* and the owner it was given, while pair 0 exists with those it was
\* allocated with.
C12_Witness ==
    /\ ret = Ret("stat", 0, 0)
    /\ statbuf = [fmt |-> "S_IFCHR", perms |-> 400, uid |-> 501, gid |-> 20,
                  inode |-> 4, rdev |-> dev_make(TTY_PSEUDO_SLAVE_MAJOR, 1)]
    /\ slave_ttys[0] # NULL /\ tty[slave_ttys[0]].uid = 0
    /\ slave_ttys[1] # NULL /\ tty[slave_ttys[1]].uid = 501

\* A path as getpath writes it: the root, or one component in decimal with
\* no leading zero.
Canonical(path) ==
    \/ path = <<>>
    \/ WellFormed(path) /\ (Len(path) = 2 \/ path[2] # "0")

\* C13: for a handle that devpts_open has produced, getpath writes "" for
\* the root and "/<n>" in canonical decimal otherwise; with the table as it
\* was at the open, resolving what getpath wrote yields the number the
\* handle carries; and for a canonical path getpath writes the path the
\* handle was opened with.
C13_RoundTrip ==
    (devfd.open /\ devfd.got /\ devfd.tab = slave_ttys) =>
        /\ Canonical(devfd.buf)
        /\ devfd.pty_num = -1 <=> devfd.buf = <<>>
        /\ devfd.pty_num # -1 => atol(Tail(devfd.buf)) = devfd.pty_num
        /\ \A b \in BOOLEAN :
              devpts_get_pty_num(K, devfd.buf, b) = devfd.pty_num
        /\ Canonical(devfd.path) => devfd.buf = devfd.path

----------------------------------------------------------------------------
\* Control requests

\* Request numbers the master does not understand: the one the model's
\* callers send, and the neighbours of the two it does understand.
UnknownCmds ==
    (Cmds \cup {0, TIOCSPTLCK_ - 1, TIOCSPTLCK_ + 1, TIOCGPTN_ - 1})
        \ {TIOCSPTLCK_, TIOCGPTN_}

UnknownInv ==
    \A m \in Masters, cmd \in UnknownCmds, a \in Dwords :
        LET r == pty_ioctl(K, m, cmd, a)
        IN  r.ret = _EINVAL /\ r.arg = a /\ r.k = K

UnknownStep ==
    \A m \in Masters, cmd \in UnknownCmds, a \in Dwords :
        MasterIoctl(m, cmd, a)
        => /\ ret' = Ret("ioctl", _EINVAL, a)
           /\ UNCHANGED <<tty, master_ttys, slave_ttys, fds>>

\* C14: an ioctl on a master with a command other than SET_SLAVE_LOCK and
\* GET_SLAVE_NUMBER returns _EINVAL and leaves the slave's locked flag, both
\* other links, the caller's argument and the slave table as they were.
C14_UnknownRequest == []UnknownInv /\ [][UnknownStep]_vars

\* An unknown request has just been refused on a master whose slave is
\* unlocked and open.
C14_Witness ==
    /\ ret = Ret("ioctl", _EINVAL, 2)
    /\ \E m \in Masters : ~tty[tty[m].other].locked /\ fds[tty[m].other] > 0

----------------------------------------------------------------------------
\* No use of a torn-down master

\* C15: in every interleaving of a write on a slave with the cleanup of its
\* master, no write hands tty_input an absent `other', and none uses the
\* master after its cleanup has begun.
C15_NoTornDownMaster == ~wr.null /\ ~wr.torn

----------------------------------------------------------------------------
\* Cleanup ordering

\* A step of pty_master_cleanup in order: the hang-up finds slave->pty.other
\* cleared and the slave's lock held by the cleaning thread; the lock is
\* given back only after the hang-up; tty_release of the slave comes with
\* the lock given back, the slave detached and hung up.
CleanupStepInOrder ==
    (cl.pc = "cleanup" /\ cl'.pc = "cleanup" /\ cl'.i = cl.i + 1) =>
        LET ev == pty_master_cleanup_events(K, cl.tty)[cl.i]
            s == cl.slave
        IN  /\ ev.obj = s
            /\ ev.op = "tty_hangup" =>
                   tty[s].other = NULL /\ tlock[s] = "cl" /\ tlock'[s] = "cl"
            /\ ev.op = "unlock" => tty[s].hung_up
            /\ ev.op = "tty_release" =>
                   tlock[s] # "cl" /\ tty[s].other = NULL /\ tty[s].hung_up

\* A slave is destroyed only once it is detached and hung up.
SlaveDestroyedLast ==
    \A s \in TtyIds :
        (tty[s].driver = "slave" /\ tty'[s].driver = "free") =>
            tty[s].other = NULL /\ tty[s].hung_up

\* C16: within every execution of pty_master_cleanup the clearing of
\* slave.other comes before the hang-up, the hang-up runs with the slave's
\* lock held, the core's reference to the slave is released only after that
\* lock has been given back, and so the slave is never destroyed before it is
\* detached and hung up.
C16_CleanupOrdering == [][CleanupStepInOrder /\ SlaveDestroyedLast]_vars

\* pty_master_cleanup has run to its end on a pair whose slave is still open.
C16_Witness ==
    /\ cl.pc = "cleanup"
    /\ cl.i > Len(pty_master_cleanup_events(K, cl.tty))
    /\ tty[cl.slave].driver = "slave"
    /\ fds[cl.slave] > 0
    /\ tty[cl.slave].hung_up /\ tty[cl.slave].other = NULL

----------------------------------------------------------------------------
\* Locking discipline

\* The stores of a handler to pair state or to the slave table that are made
\* without the lock of the object that owns the field (the table lock for
\* the table), by a thread that entered the handler holding `entry'.
UnlockedStores(events, entry) ==
    {i \in 1..Len(events) :
        /\ events[i].op = "store"
        /\ events[i].field \in {"other", "locked", "ttys"}
        /\ events[i].obj \notin HeldAfter(events, i - 1, entry)}

\* C17: every store of this driver to a terminal's pair state (slave.locked
\* in the TIOCSPTLCK ioctl, slave.other in master cleanup, the fields set in
\* master init) is made with the lock of the owning object held, and every
\* store to the slave table with the table lock held.
C17_LockingDiscipline ==
    /\ \A m \in TtyIds : tty[m].driver = "master" =>
           /\ UnlockedStores(pty_master_cleanup_events(K, m),
                             CallerLocks("cleanup", m)) = {}
           /\ \A cmd \in Cmds :
                  UnlockedStores(pty_ioctl_events(K, m, cmd),
                                 CallerLocks("ioctl", m)) = {}
    /\ \A th \in Threads :
           (/\ pc[th] = "scanned"
            /\ master_ttys[pty_num[th]] = NULL
            /\ Cardinality(FreeIds(K)) >= 2) =>
               LET t == NewTty(K)
                   k1 == tty_alloc(K, t, "master", pty_num[th])
               IN  UnlockedStores(pty_master_init_events(k1, t),
                                  CallerLocks("init", t)) = {}

----------------------------------------------------------------------------
\* Scan, then construct

\* While a thread is between its scan and its tty_get, ttys_lock is free:
\* the scan of another thread can run.
LockReleasedAfterScan ==
    \A t, u \in Threads :
        (pc[t] = "scanned" /\ pc[u] = "idle") => ENABLED PtmxScan(u)

\* A scan reserves nothing: the number it chose is still the first free one
\* when it has returned.  And tty_get takes the number as it is: the thread
\* leaves it holding one more descriptor of the master of that number,
\* whatever has happened to the tables since its scan.
ScanThenGet ==
    \A t \in Threads :
        /\ (pc[t] = "idle" /\ pc'[t] = "scanned") =>
               /\ pty_num'[t] = ptmx_scan(K, 0)
               /\ ptmx_scan(K', 0) = pty_num'[t]
        /\ (pc[t] = "scanned" /\ pc'[t] = "idle") =>
               /\ master_ttys'[pty_num[t]] # NULL
               /\ fds'[master_ttys'[pty_num[t]]] > 0
               /\ master_ttys[pty_num[t]] # NULL =>
                      /\ master_ttys'[pty_num[t]] = master_ttys[pty_num[t]]
                      /\ fds'[master_ttys[pty_num[t]]] =
                             fds[master_ttys[pty_num[t]]] + 1

\* C18: ptmx_open holds the table lock during the scan only and has given
\* it back before the master is constructed, so two concurrent calls can both
\* choose the same free number and both go on to obtain a master for it.
C18_ScanThenConstruct == []LockReleasedAfterScan /\ [][ScanThenGet]_vars

\* Two calls whose scans overlapped have both returned, each with a
\* descriptor of the one master of the number both chose.
C18_Witness ==
    /\ overlapped
    /\ \A t \in Threads : pc[t] = "idle"
    /\ \E m \in TtyIds : tty[m].driver = "master" /\ fds[m] = 2

----------------------------------------------------------------------------
\* Table index bounds

\* C19: every read of the slave table by devpts (existence test, stat,
\* readdir) and by the allocator uses an index n with 0 <= n < MAX_PTYS; a
\* lookup of "/<MAX_PTYS>" is turned away without indexing the table.
C19_TableIndexBounds ==
    /\ ~oob
    /\ devpts_get_pty_num_reads(<<"/">> \o itoa(MAX_PTYS)) = {}

----------------------------------------------------------------------------
\* The assert of devpts_stat_num

\* C20: whenever devpts_stat_num is reached with the number of a pair, from
\* devpts_stat after its lookup or from devpts_fstat on a handle opened
\* before, the slot of that number is not NULL, however the release of the
\* master and the destruction of the slave interleave with the call.
C20_StatAssertion == ~st.stat_failed /\ ~st.fstat_failed

====
